---- MODULE Spec2Model ----
(***************************************************************************)
(* Model of pfSense-MWAN-DDNS: the reconciliation engine pdns_dyndns.py    *)
(* (PfSensePlatform + DynDNSUpdater) and the watch loop gateway_watcher.py.*)
(*                                                                         *)
(* Python dicts are modelled as TLA+ functions (the domain is the key     *)
(* set); dicts whose iteration order matters are sequences of pairs.      *)
(* Python lists are sequences, Python sets are sets.  None is the string  *)
(* "None".  Text read from a probe socket is a sequence of tokens, each   *)
(* token a sequence of one-character strings, so that int() and the       *)
(* string comparison parts[3] == '0' are computed, not assumed.           *)
(***************************************************************************)
EXTENDS Integers, Sequences, FiniteSets, TLC

None == "None"

\* The empty dict {}.
EmptyMap == [x \in {} |-> None]

\* dict.get(key, default)
DictGet(d, key, default) == IF key \in DOMAIN d THEN d[key] ELSE default

Range(s) == {s[i] : i \in DOMAIN s}

(***************************************************************************)
(* Gateway health classification                                           *)
(***************************************************************************)

Gateways == {"GW_A", "GW_B"}

Digits == {"0", "1", "2", "3", "4", "5", "6", "7", "8", "9"}

DigitVal(c) ==
    CASE c = "0" -> 0 [] c = "1" -> 1 [] c = "2" -> 2 [] c = "3" -> 3
      [] c = "4" -> 4 [] c = "5" -> 5 [] c = "6" -> 6 [] c = "7" -> 7
      [] c = "8" -> 8 [] c = "9" -> 9

RECURSIVE DigitsVal(_)
DigitsVal(tok) ==
    IF Len(tok) = 0 THEN 0
    ELSE 10 * DigitsVal(SubSeq(tok, 1, Len(tok) - 1)) + DigitVal(tok[Len(tok)])

\* Whether int(tok) returns (an optional sign, then at least one digit);
\* otherwise int() raises ValueError.
IsIntToken(tok) ==
    LET body == IF Len(tok) > 0 /\ tok[1] \in {"+", "-"} THEN Tail(tok) ELSE tok
    IN  Len(body) > 0 /\ \A i \in DOMAIN body : body[i] \in Digits

\* int(tok), for a token int() accepts.
IntOf(tok) ==
    IF tok[1] = "-" THEN 0 - DigitsVal(Tail(tok))
    ELSE IF tok[1] = "+" THEN DigitsVal(Tail(tok))
    ELSE DigitsVal(tok)

DefaultLatencyHigh == 500
DefaultLossHigh == 20

\* The comparison (live_latency_us / 1000) < latency_high_ms and
\* live_loss_pct < loss_high_pct.  The division is Python's true division;
\* for integers x / 1000 < h is x < 1000 * h.
WithinThresholds(thresholds, gateway_name, live_latency_us, live_loss_pct) ==
    LET gw_thresholds == DictGet(thresholds, gateway_name, EmptyMap)
        latency_high_ms == DictGet(gw_thresholds, "latencyhigh", DefaultLatencyHigh)
        loss_high_pct == DictGet(gw_thresholds, "losshigh", DefaultLossHigh)
    IN  live_latency_us < 1000 * latency_high_ms /\ live_loss_pct < loss_high_pct

\* Whether the engine looks at the thresholds at all: pdns_dyndns.py line 119.
EngineSampleGate(parts) == Len(parts) >= 4 /\ parts[4] = <<"0">>

\* The status the engine gives one gateway whose socket read is `read`:
\* read.timeout is subprocess.run raising TimeoutExpired, read.parts is
\* result.stdout.strip().split().  parts[1] and parts[3] of the code are
\* parts[2] and parts[4] here (sequences start at 1).
EngineStatus(thresholds, gateway_name, read) ==
    IF read.timeout THEN "down"
    ELSE LET parts == read.parts IN
         IF EngineSampleGate(parts)
         THEN IF ~IsIntToken(parts[2]) \/ ~IsIntToken(parts[4]) THEN "down"
              ELSE IF WithinThresholds(thresholds, gateway_name,
                                       IntOf(parts[2]), IntOf(parts[4]))
                   THEN "online" ELSE "down"
         ELSE "down"

\* PfSensePlatform.get_gateway_statuses: one status per dpinger socket.
PfSensePlatform_get_gateway_statuses(thresholds, sockets) ==
    [g \in DOMAIN sockets |-> EngineStatus(thresholds, g, sockets[g])]

\* Whether the watcher looks at the thresholds: gateway_watcher.py line 59.
WatcherSampleGate(parts) == Len(parts) >= 4

WatcherStatus(thresholds, gateway_name, read) ==
    IF read.timeout THEN "down"
    ELSE LET parts == read.parts IN
         IF WatcherSampleGate(parts)
         THEN IF ~IsIntToken(parts[2]) \/ ~IsIntToken(parts[4]) THEN "down"
              ELSE IF WithinThresholds(thresholds, gateway_name,
                                       IntOf(parts[2]), IntOf(parts[4]))
                   THEN "online" ELSE "down"
         ELSE "down"

\* gateway_watcher.get_gateway_statuses
watcher_get_gateway_statuses(thresholds, sockets) ==
    [g \in DOMAIN sockets |-> WatcherStatus(thresholds, g, sockets[g])]

(***************************************************************************)
(* Inputs of the classifier: what config.xml and the sockets can hold      *)
(***************************************************************************)

\* Latency fields (microseconds) a socket line can carry.
LatencyTokens ==
    { <<"9", "9", "9", "9">>,                  \* 9.999 ms
      <<"1", "0", "0", "0", "0">>,             \* 10 ms
      <<"1", "0", "0", "0", "0", "0">>,        \* 100 ms
      <<"4", "9", "9", "9", "9", "9">>,        \* 499.999 ms
      <<"5", "0", "0", "0", "0", "0">>,        \* 500 ms
      <<"6", "0", "0", "0", "0", "0">>,        \* 600 ms
      <<"a", "b", "c">> }

\* Loss fields (percent) a socket line can carry.
LossTokens ==
    { <<"0">>, <<"4">>, <<"5">>, <<"1", "9">>, <<"2", "0">>, <<"2", "1">>,
      <<"1", "0", "0">>, <<"x">> }

NameToken == <<"g", "w">>
StddevToken == <<"7">>

\* The lines a dpinger socket can yield, split into fields: nothing, a
\* short line, a full line "name latency stddev loss", a longer line.
SocketParts ==
    { << >>, <<NameToken>> }
    \cup { <<NameToken, lat, StddevToken>> : lat \in LatencyTokens }
    \cup { <<NameToken, lat, StddevToken, loss>> :
             lat \in LatencyTokens, loss \in LossTokens }
    \cup { <<NameToken, lat, StddevToken, loss, StddevToken>> :
             lat \in {<<"1", "0", "0", "0", "0", "0">>}, loss \in LossTokens }

SocketReads ==
    { [timeout |-> TRUE, parts |-> << >>] }
    \cup { [timeout |-> FALSE, parts |-> p] : p \in SocketParts }

\* Thresholds one gateway_item can configure.
ThresholdChoices ==
    { [k \in {"latencyhigh", "losshigh"} |->
          IF k = "latencyhigh" THEN l ELSE p] : l \in {10, 500}, p \in {5, 20} }

\* The thresholds dict: any subset of the gateways configured.
ThresholdMaps ==
    UNION { [S -> ThresholdChoices] : S \in SUBSET Gateways }

(***************************************************************************)
(* The reconciliation engine: DynDNSUpdater.run and what it calls          *)
(***************************************************************************)

V4 == {"203.0.113.5", "203.0.113.9"}
V6 == {"2001:db8::1"}
PhysIfs == {"em0", "ixl2"}
PfIfs == {"wan", "opt1"}

\* {v: k for k, v in gateway_to_if_map.items()}: a dict comprehension
\* over the items in insertion order, so that of two gateways on one
\* interface the later one stays.
InvertDict(items) ==
    [v \in {items[i][2] : i \in DOMAIN items} |->
        LET last == CHOOSE i \in DOMAIN items :
                        /\ items[i][2] = v
                        /\ \A j \in DOMAIN items : j > i => items[j][2] /= v
        IN  items[last][1]]

\* gateway_statuses.get(gw_name) == 'online'
IsOnlineMutant(status) == status /= "down"
IsOnline(status) == status = "online"

\* The body of the loops of run, lines 276-285: the chain of .get calls.
\* Both loops have the same body; a loop for all_ipv6 that kept every
\* address would classify by family as well.
IsHealthyV6KeptMutant(ip, ip_to_phys, phys_to_pf, if_to_gateway, statuses) ==
    LET phys_if == DictGet(ip_to_phys, ip, None)
        pf_if == DictGet(phys_to_pf, phys_if, None)
        gw_name == DictGet(if_to_gateway, pf_if, None)
    IN  ip \in V6 \/ IsOnline(DictGet(statuses, gw_name, None))
IsHealthy(ip, ip_to_phys, phys_to_pf, if_to_gateway, statuses) ==
    LET phys_if == DictGet(ip_to_phys, ip, None)
        pf_if == DictGet(phys_to_pf, phys_if, None)
        gw_name == DictGet(if_to_gateway, pf_if, None)
    IN  IsOnline(DictGet(statuses, gw_name, None))

\* healthy_ipv4 / healthy_ipv6 as the loops build them: the discovered
\* list with the unhealthy addresses left out, order and repeats kept.
HealthyList(all_ips, ip_to_phys, phys_to_pf, if_to_gateway, statuses) ==
    LET keep(ip) == IsHealthy(ip, ip_to_phys, phys_to_pf, if_to_gateway, statuses)
    IN  SelectSeq(all_ips, keep)

\* set(all_ipv4) - set(healthy_ipv4)
UnhealthySetMutant(all_ips, healthy) == Range(all_ips)
UnhealthySet(all_ips, healthy) == Range(all_ips) \ Range(healthy)

\* Lines 290-291: what --ipv4only / --ipv6only leave of one family's
\* healthy list and unhealthy set; `drop` is the flag of the other family.
FilterHealthy(drop, healthy) == IF drop THEN << >> ELSE healthy
FilterUnhealthyMutant(drop, unhealthy) == unhealthy
FilterUnhealthy(drop, unhealthy) == IF drop THEN {} ELSE unhealthy

\* load_previous_state: the file's content, or {} when there is no file.
\* With a file that open() or json.load() cannot read the function raises
\* (there is no try around lines 231-232).
load_previous_state_raises(file) == file.exists /\ ~file.readable
load_previous_state(file) == IF file.exists THEN file.content ELSE EmptyMap

\* The exit status of the process: nothing in __main__ or run sets one, so
\* it is 0 unless an exception left run uncaught (traceback, status 1).
ExitStatus(how) == IF how \in {"gather_raised", "load_raised"} THEN 1 ELSE 0

\* set(previous_state.get(family, {}).keys()) != set(healthy)
FamilyChangedMutant(previous, family, healthy) ==
    Cardinality(DOMAIN DictGet(previous, family, EmptyMap)) /= Len(healthy)
FamilyChanged(previous, family, healthy) ==
    DOMAIN DictGet(previous, family, EmptyMap) /= Range(healthy)

\* Line 302: if self.args.force_update or ipv4_changed or ipv6_changed
UpdateNeededMutant(force_update, v4_changed, v6_changed) ==
    force_update \/ v4_changed \/ v6_changed \/ TRUE
UpdateNeededForcedMutant(force_update, v4_changed, v6_changed) ==
    force_update \/ (v4_changed /\ v6_changed)
UpdateNeeded(force_update, v4_changed, v6_changed) ==
    force_update \/ v4_changed \/ v6_changed

\* save_state: the dict written to the state file.
SavedStateMutant(previous, ipv4, ipv6, timestamp) ==
    [fam \in {"ipv4", "ipv6"} |->
        LET old == DictGet(previous, fam, EmptyMap)
            new == IF fam = "ipv4" THEN Range(ipv4) ELSE Range(ipv6)
        IN  [ip \in DOMAIN old \cup new |-> timestamp]]
SavedState(previous, ipv4, ipv6, timestamp) ==
    [fam \in {"ipv4", "ipv6"} |->
        IF fam = "ipv4" THEN [ip \in Range(ipv4) |-> timestamp]
        ELSE [ip \in Range(ipv6) |-> timestamp]]

\* What the PATCH of update_dns makes of the record at the server when it
\* is accepted: both rrsets have changetype REPLACE, so the A and the AAAA
\* set become the addresses sent, whatever `records` held.
ReplaceRRsetsMutant(records, ipv4_addresses, ipv6_addresses) ==
    [A |-> records.A \cup Range(ipv4_addresses),
     AAAA |-> records.AAAA \cup Range(ipv6_addresses)]
ReplaceRRsets(records, ipv4_addresses, ipv6_addresses) ==
    [A |-> Range(ipv4_addresses), AAAA |-> Range(ipv6_addresses)]

\* Lines 302-316: where run goes from the decision: to update_dns, the
\* first of the effects, or to the end.
AfterDecisionMutant(update_needed) ==
    IF update_needed THEN "persisting" ELSE "finished"
AfterDecision(update_needed) ==
    IF update_needed THEN "publishing" ELSE "finished"

\* Line 306: where run goes after update_dns returned `ok`.
AfterPublishMutant(ok) == "persisting"
AfterPublish(ok) == IF ok THEN "persisting" ELSE "finished"

\* content_to_write = ip if status == 'healthy' else ip + "\n"
CacheContentMutant(status, ip) == <<ip>>
CacheContent(status, ip) == IF status = "healthy" THEN <<ip>> ELSE <<ip, "\n">>

\* Lines 199-204: the logical interface and DynDNS id of an address, or
\* None where the loop says continue.
CacheTarget(ip, ip_to_phys, phys_to_pf, dyndns_ids) ==
    LET physical_iface == DictGet(ip_to_phys, ip, None)
        pf_iface == DictGet(phys_to_pf, physical_iface, None)
        dyndns_id == DictGet(dyndns_ids, pf_iface, None)
    IN  IF physical_iface = None \/ pf_iface = None \/ dyndns_id = None
        THEN None ELSE <<pf_iface, dyndns_id>>

\* The writes of the inner loop for one status, in order.  The path
\* /conf/dyndns_{pf_iface}custom''{dyndns_id}.cache is the pair
\* <<pf_iface, dyndns_id>>.
RECURSIVE CacheWritesOf(_, _, _, _, _)
CacheWritesOf(status, ip_list, ip_to_phys, phys_to_pf, dyndns_ids) ==
    IF ip_list = << >> THEN << >>
    ELSE LET ip == Head(ip_list)
             rest == CacheWritesOf(status, Tail(ip_list), ip_to_phys,
                                   phys_to_pf, dyndns_ids)
         IN  IF CacheTarget(ip, ip_to_phys, phys_to_pf, dyndns_ids) = None
             THEN rest
             ELSE << [path |-> CacheTarget(ip, ip_to_phys, phys_to_pf, dyndns_ids),
                      content |-> CacheContent(status, ip)] >> \o rest

\* list(s) of a Python set: the elements once each, in an order the
\* program does not control.
Orderings(S) == {s \in [1..Cardinality(S) -> S] : Range(s) = S}

(***************************************************************************)
(* What the platform can report in one run                                 *)
(***************************************************************************)

MaxAddrs == 2
MaxTime == 2

\* The flags run reads, without --dry-run.
ArgSets ==
    [force_update : BOOLEAN, ipv4only : BOOLEAN, ipv6only : BOOLEAN,
     dry_run : {FALSE}]
NoArgs ==
    [force_update |-> FALSE, ipv4only |-> FALSE, ipv6only |-> FALSE,
     dry_run |-> FALSE]

PartialMaps(D, R) == UNION { [S -> R] : S \in SUBSET D }

\* Ordered dicts gateway -> logical interface (keys once each).
GatewayIfMaps ==
    { s \in UNION { [1..n -> Gateways \X PfIfs] : n \in 0..Cardinality(Gateways) } :
        \A i, j \in DOMAIN s : i /= j => s[i][1] /= s[j][1] }

ListsOver(S, n) == UNION { [1..k -> S] : k \in 0..n }

\* Status maps: GW_B has a socket, GW_A may have none.
StatusMaps == { m \in PartialMaps(Gateways, {"online", "down"}) : "GW_B" \in DOMAIN m }

\* Every combination of facts over the small universe, without DynDNS
\* ids (classification does not read them).
TopoFacts ==
    [ thresholds : {EmptyMap},
      gateway_statuses : StatusMaps,
      gateway_to_if_map : GatewayIfMaps,
      phys_to_pf_if_map : PartialMaps(PhysIfs, PfIfs),
      ip_to_phys_if_map : PartialMaps(V4 \cup V6, PhysIfs),
      dyndns_id_map : {EmptyMap},
      all_ipv4 : ListsOver(V4, MaxAddrs),
      all_ipv6 : ListsOver(V6, 1) ]

VARIABLES
    c_pc,          \* classifier harness: "input" or "classified"
    c_thresholds,  \* thresholds dict handed to get_gateway_statuses
    c_sockets,     \* gateway name -> socket read
    c_statuses,    \* the engine's result
    c_watcher_statuses,  \* the watcher's result for the same input
    pc,            \* where run is: idle, classified, filtered, publishing,
                   \* persisting, cachewriting, notifying, finished, aborted
    args,          \* the parsed command line
    thresholds,
    gateway_statuses,
    gateway_to_if_map,
    phys_to_pf_if_map,
    ip_to_phys_if_map,
    dyndns_id_map,
    all_ipv4,
    all_ipv6,
    gather_failed,    \* the adapter call that failed in this run, or "none"
    healthy_ipv4,
    healthy_ipv6,
    unhealthy_ipv4,
    unhealthy_ipv6,
    previous_state,   \* what load_previous_state returned in this run
    ipv4_changed,
    ipv6_changed,
    outcome,          \* how the run ended: none, nochange, failed, updated,
                      \* gather_raised, load_raised
    exit_status,      \* << >> while the process runs, then <<its exit status>>
    state_file,       \* /var/db/pdns-dyndns.state.json
    dns,              \* the record's A and AAAA sets at the DNS server
    publish_calls,    \* the update_dns calls of this run
    state_writes,     \* how often this run wrote the state file
    cache_writes,     \* the cache-file writes of this run, in order
    cache_errors,     \* the cache-file writes of this run that raised
    notifications,    \* the notices this run sent
    w_pc,             \* watcher: start, sleeping, spawning, waiting
    previous_statuses,
    current_statuses,
    w_command,        \* the flags of the command run_updater built last
    w_last,           \* how the last run_updater ended: none, returned, error
    other_run,        \* a second engine process (cron or by hand): its
                      \* position and its healthy / unhealthy locals
    failed_publish    \* << >>, or <<the sets of the failed publish of a
                      \* change that no successful publish has followed>>

gwVars == <<c_pc, c_thresholds, c_sockets, c_statuses, c_watcher_statuses>>

factVars == <<thresholds, gateway_statuses, gateway_to_if_map, phys_to_pf_if_map,
              ip_to_phys_if_map, dyndns_id_map, all_ipv4, all_ipv6, gather_failed>>

partitionVars == <<healthy_ipv4, healthy_ipv6, unhealthy_ipv4, unhealthy_ipv6>>

decisionVars == <<previous_state, ipv4_changed, ipv6_changed>>

effectVars == <<publish_calls, state_writes, cache_writes, cache_errors, notifications>>

engineVars == <<pc, args, factVars, partitionVars, decisionVars, outcome,
                exit_status, state_file, dns, effectVars>>

watchVars == <<w_pc, previous_statuses, current_statuses, w_command, w_last>>

otherVars == <<gwVars, watchVars, other_run, failed_publish>>

vars == <<gwVars, engineVars, watchVars, other_run, failed_publish>>

\* No second engine process.
NoOtherRun ==
    [pc |-> "idle", healthy_ipv4 |-> << >>, healthy_ipv6 |-> << >>,
     unhealthy_ipv4 |-> {}, unhealthy_ipv6 |-> {}]

WatchIdle ==
    /\ w_pc = "start"
    /\ previous_statuses = EmptyMap
    /\ current_statuses = EmptyMap
    /\ w_command = NoArgs
    /\ w_last = "none"

GwIdle ==
    /\ c_pc = "input"
    /\ c_thresholds = EmptyMap
    /\ c_sockets = EmptyMap
    /\ c_statuses = EmptyMap
    /\ c_watcher_statuses = EmptyMap

\* No run in progress and nothing left of the last one.
RunLocalsCleared ==
    /\ args = NoArgs
    /\ thresholds = EmptyMap
    /\ gateway_statuses = EmptyMap
    /\ gateway_to_if_map = << >>
    /\ phys_to_pf_if_map = EmptyMap
    /\ ip_to_phys_if_map = EmptyMap
    /\ dyndns_id_map = EmptyMap
    /\ all_ipv4 = << >>
    /\ all_ipv6 = << >>
    /\ gather_failed = "none"
    /\ healthy_ipv4 = << >>
    /\ healthy_ipv6 = << >>
    /\ unhealthy_ipv4 = {}
    /\ unhealthy_ipv6 = {}
    /\ previous_state = EmptyMap
    /\ ipv4_changed = FALSE
    /\ ipv6_changed = FALSE
    /\ outcome = "none"
    /\ publish_calls = << >>
    /\ state_writes = 0
    /\ cache_writes = << >>
    /\ cache_errors = << >>
    /\ notifications = 0

\* The run's locals go away with the process.
ClearRunLocals ==
    /\ args' = NoArgs
    /\ thresholds' = EmptyMap
    /\ gateway_statuses' = EmptyMap
    /\ gateway_to_if_map' = << >>
    /\ phys_to_pf_if_map' = EmptyMap
    /\ ip_to_phys_if_map' = EmptyMap
    /\ dyndns_id_map' = EmptyMap
    /\ all_ipv4' = << >>
    /\ all_ipv6' = << >>
    /\ gather_failed' = "none"
    /\ healthy_ipv4' = << >>
    /\ healthy_ipv6' = << >>
    /\ unhealthy_ipv4' = {}
    /\ unhealthy_ipv6' = {}
    /\ previous_state' = EmptyMap
    /\ ipv4_changed' = FALSE
    /\ ipv6_changed' = FALSE
    /\ outcome' = "none"
    /\ publish_calls' = << >>
    /\ state_writes' = 0
    /\ cache_writes' = << >>
    /\ cache_errors' = << >>
    /\ notifications' = 0

\* A fresh installation: no state file yet, an empty record at the server.
EngineInit ==
    /\ pc = "idle"
    /\ RunLocalsCleared
    /\ exit_status = << >>
    /\ state_file = [exists |-> FALSE, readable |-> FALSE, content |-> EmptyMap]
    /\ dns = [A |-> {}, AAAA |-> {}]

(***************************************************************************)
(* The classifier on its own                                               *)
(***************************************************************************)

\* One gateway's socket and any thresholds: the classifier treats each
\* gateway independently.
GwInit ==
    /\ c_pc = "input"
    /\ c_thresholds \in ThresholdMaps
    /\ \E g \in Gateways : c_sockets \in [{g} -> SocketReads]
    /\ c_statuses = EmptyMap
    /\ c_watcher_statuses = EmptyMap
    /\ EngineInit
    /\ WatchIdle
    /\ other_run = NoOtherRun /\ failed_publish = << >>

GwClassify ==
    /\ c_pc = "input"
    /\ c_pc' = "classified"
    /\ c_statuses' = PfSensePlatform_get_gateway_statuses(c_thresholds, c_sockets)
    /\ c_watcher_statuses' = watcher_get_gateway_statuses(c_thresholds, c_sockets)
    /\ UNCHANGED <<c_thresholds, c_sockets, engineVars, watchVars, other_run, failed_publish>>

GwNext == GwClassify

SpecGw == GwInit /\ [][GwNext]_vars

(***************************************************************************)
(* One run of the engine, step by step                                     *)
(***************************************************************************)

\* Lines 256-288: gather the facts and split the discovered addresses.
RunClassify(a, facts) ==
    /\ pc = "idle"
    /\ pc' = "classified"
    /\ args' = a
    /\ thresholds' = facts.thresholds
    /\ gateway_statuses' = facts.gateway_statuses
    /\ gateway_to_if_map' = facts.gateway_to_if_map
    /\ phys_to_pf_if_map' = facts.phys_to_pf_if_map
    /\ ip_to_phys_if_map' = facts.ip_to_phys_if_map
    /\ dyndns_id_map' = facts.dyndns_id_map
    /\ all_ipv4' = facts.all_ipv4
    /\ all_ipv6' = facts.all_ipv6
    /\ LET if_to_gateway_map == InvertDict(facts.gateway_to_if_map)
           h4 == HealthyList(facts.all_ipv4, facts.ip_to_phys_if_map,
                             facts.phys_to_pf_if_map, if_to_gateway_map,
                             facts.gateway_statuses)
           h6 == HealthyList(facts.all_ipv6, facts.ip_to_phys_if_map,
                             facts.phys_to_pf_if_map, if_to_gateway_map,
                             facts.gateway_statuses)
       IN  /\ healthy_ipv4' = h4
           /\ healthy_ipv6' = h6
           /\ unhealthy_ipv4' = UnhealthySet(facts.all_ipv4, h4)
           /\ unhealthy_ipv6' = UnhealthySet(facts.all_ipv6, h6)
    /\ exit_status' = << >>
    /\ UNCHANGED <<decisionVars, outcome, state_file, dns, effectVars>>

\* Lines 290-291.
ApplyFilters ==
    /\ pc = "classified"
    /\ pc' = "filtered"
    /\ healthy_ipv6' = FilterHealthy(args.ipv4only, healthy_ipv6)
    /\ unhealthy_ipv6' = FilterUnhealthy(args.ipv4only, unhealthy_ipv6)
    /\ healthy_ipv4' = FilterHealthy(args.ipv6only, healthy_ipv4)
    /\ unhealthy_ipv4' = FilterUnhealthy(args.ipv6only, unhealthy_ipv4)
    /\ UNCHANGED <<otherVars, args, exit_status, factVars, decisionVars, outcome, state_file,
                   dns, effectVars>>

\* Lines 298-304 and 315-316: load the state and decide.
Decide ==
    /\ pc = "filtered"
    /\ IF load_previous_state_raises(state_file)
       THEN /\ pc' = "aborted"
            /\ outcome' = "load_raised"
            /\ UNCHANGED decisionVars
       ELSE LET previous == load_previous_state(state_file)
                c4 == FamilyChanged(previous, "ipv4", healthy_ipv4)
                c6 == FamilyChanged(previous, "ipv6", healthy_ipv6)
            IN  /\ previous_state' = previous
                /\ ipv4_changed' = c4
                /\ ipv6_changed' = c6
                /\ pc' = AfterDecision(UpdateNeeded(args.force_update, c4, c6))
                /\ outcome' = IF UpdateNeeded(args.force_update, c4, c6)
                              THEN outcome ELSE "nochange"
    /\ UNCHANGED <<otherVars, args, exit_status, factVars, partitionVars, state_file, dns,
                   effectVars>>

\* update_dns, lines 240-253 and 306: one PATCH replacing the A and the
\* AAAA set; ok is "the response came and its status was 204".
Publish(ok) ==
    /\ pc = "publishing"
    /\ publish_calls' = Append(publish_calls,
                               [ipv4 |-> healthy_ipv4, ipv6 |-> healthy_ipv6,
                                ok |-> ok])
    /\ dns' = IF ok THEN ReplaceRRsets(dns, healthy_ipv4, healthy_ipv6) ELSE dns
    /\ pc' = AfterPublish(ok)
    /\ outcome' = IF AfterPublish(ok) = "finished" THEN "failed" ELSE outcome
    /\ UNCHANGED <<gwVars, watchVars, other_run, args, exit_status, factVars, partitionVars, decisionVars,
                   state_file, state_writes, cache_writes, cache_errors, notifications>>

\* save_state, lines 235-238 and 307; timestamp is datetime.utcnow().
SaveState(timestamp) ==
    /\ pc = "persisting"
    /\ state_file' = [exists |-> TRUE, readable |-> TRUE,
                      content |-> SavedState(previous_state, healthy_ipv4,
                                             healthy_ipv6, timestamp)]
    /\ state_writes' = state_writes + 1
    /\ pc' = "cachewriting"
    /\ UNCHANGED <<otherVars, args, exit_status, factVars, partitionVars, decisionVars, outcome,
                   dns, publish_calls, cache_writes, cache_errors, notifications>>

\* Lines 208-212: the writes that open() and write() completed, where
\* failing holds the positions of the writes that raised.  The except
\* clause is inside the inner loop, so the loop goes on after an error;
\* without it the first error would end the function.
RECURSIVE WritesUpTo(_, _, _)
WritesUpTo(writes, failing, n) ==
    IF n = 0 THEN << >>
    ELSE WritesUpTo(writes, failing, n - 1)
         \o (IF n \in failing THEN << >> ELSE << writes[n] >>)
CompletedWritesMutant(writes, failing) ==
    LET first_error ==
            CHOOSE n \in 1..(Len(writes) + 1) :
                /\ n \in failing \/ n = Len(writes) + 1
                /\ \A m \in 1..(n - 1) : m \notin failing
    IN  SubSeq(writes, 1, first_error - 1)
CompletedWrites(writes, failing) == WritesUpTo(writes, failing, Len(writes))

\* Lines 211-212: the writes that raised and were printed.
FailedWrites(writes, failing) ==
    WritesUpTo(writes, (1..Len(writes)) \ failing, Len(writes))

\* update_cache_files, lines 190-212 and 308-309: the healthy lists, then
\* the unhealthy sets in whatever order list() gives them; faults is the
\* set of the sets of positions at which a write can raise.
UpdateCacheFilesWith(faults) ==
    /\ pc = "cachewriting"
    /\ \E u4 \in Orderings(unhealthy_ipv4), u6 \in Orderings(unhealthy_ipv6),
          failing \in faults :
          LET writes ==
                 CacheWritesOf("healthy", healthy_ipv4 \o healthy_ipv6,
                               ip_to_phys_if_map, phys_to_pf_if_map, dyndns_id_map)
                 \o CacheWritesOf("unhealthy", u4 \o u6,
                                  ip_to_phys_if_map, phys_to_pf_if_map, dyndns_id_map)
          IN  /\ cache_writes' = cache_writes \o CompletedWrites(writes, failing)
              /\ cache_errors' = cache_errors \o FailedWrites(writes, failing)
    /\ pc' = "notifying"
    /\ UNCHANGED <<otherVars, args, exit_status, factVars, partitionVars, decisionVars, outcome,
                   state_file, dns, publish_calls, state_writes, notifications>>

\* Every write completes.
UpdateCacheFiles == UpdateCacheFilesWith({{}})

\* send_push_notification, lines 222-228 and 311-312: php is run with
\* check=True inside try/except Exception; sent says whether it succeeded.
\* Line 318 follows in both cases.
NotifyWith(sent) ==
    /\ pc = "notifying"
    /\ notifications' = IF sent THEN notifications + 1 ELSE notifications
    /\ pc' = "finished"
    /\ outcome' = "updated"
    /\ UNCHANGED <<otherVars, args, exit_status, factVars, partitionVars, decisionVars,
                   state_file, dns, publish_calls, state_writes, cache_writes, cache_errors>>

\* The notice is sent.
Notify == NotifyWith(TRUE)

\* Line 318 and the process exit: only the state file and the DNS record
\* outlive the run.
RunExit ==
    /\ pc \in {"finished", "aborted"}
    /\ pc' = "idle"
    /\ exit_status' = <<ExitStatus(outcome)>>
    /\ ClearRunLocals
    /\ UNCHANGED <<otherVars, state_file, dns>>

(***************************************************************************)
(* Runs one after the other                                                *)
(***************************************************************************)

\* Two uplinks, each with its gateway and its DynDNS entry; the IPv6
\* address shares the first uplink.
DualWan ==
    [ gateway_to_if_map |-> << <<"GW_A", "wan">>, <<"GW_B", "opt1">> >>,
      phys_to_pf_if_map |-> ("em0" :> "wan" @@ "ixl2" :> "opt1"),
      ip_to_phys_if_map |-> ("203.0.113.5" :> "em0" @@ "203.0.113.9" :> "ixl2"
                             @@ "2001:db8::1" :> "em0"),
      dyndns_id_map |-> ("wan" :> "0" @@ "opt1" :> "1") ]

\* Links missing: opt1 has no gateway and the IPv6 address is on no known
\* interface.
PartialConfig ==
    [ gateway_to_if_map |-> << <<"GW_A", "wan">> >>,
      phys_to_pf_if_map |-> ("em0" :> "wan" @@ "ixl2" :> "opt1"),
      ip_to_phys_if_map |-> ("203.0.113.5" :> "em0" @@ "203.0.113.9" :> "ixl2"),
      dyndns_id_map |-> ("wan" :> "0" @@ "opt1" :> "1") ]

\* The two uplinks without any custom DynDNS entry.
NoDynDns ==
    [ gateway_to_if_map |-> << <<"GW_A", "wan">>, <<"GW_B", "opt1">> >>,
      phys_to_pf_if_map |-> ("em0" :> "wan" @@ "ixl2" :> "opt1"),
      ip_to_phys_if_map |-> ("203.0.113.5" :> "em0" @@ "203.0.113.9" :> "ixl2"
                             @@ "2001:db8::1" :> "em0"),
      dyndns_id_map |-> EmptyMap ]

\* Both gateways and every address on the one logical interface wan.
SharedWan ==
    [ gateway_to_if_map |-> << <<"GW_A", "wan">>, <<"GW_B", "wan">> >>,
      phys_to_pf_if_map |-> ("em0" :> "wan" @@ "ixl2" :> "wan"),
      ip_to_phys_if_map |-> ("203.0.113.5" :> "em0" @@ "203.0.113.9" :> "ixl2"
                             @@ "2001:db8::1" :> "em0"),
      dyndns_id_map |-> ("wan" :> "0") ]

\* config.xml unreadable: every map read from it is empty.
NoConfig ==
    [ gateway_to_if_map |-> << >>,
      phys_to_pf_if_map |-> EmptyMap,
      ip_to_phys_if_map |-> ("203.0.113.5" :> "em0" @@ "203.0.113.9" :> "ixl2"
                             @@ "2001:db8::1" :> "em0"),
      dyndns_id_map |-> EmptyMap ]

Topologies == {DualWan, PartialConfig, NoDynDns, SharedWan, NoConfig}

\* "gw 100000 7 0" and "gw 100000 7 4"
GoodRead ==
    [timeout |-> FALSE,
     parts |-> <<NameToken, <<"1", "0", "0", "0", "0", "0">>, StddevToken, <<"0">> >>]
LossyRead ==
    [timeout |-> FALSE,
     parts |-> <<NameToken, <<"1", "0", "0", "0", "0", "0">>, StddevToken, <<"4">> >>]

\* GW_B has a socket, GW_A may have none.
RunSockets ==
    { s \in PartialMaps(Gateways, {GoodRead, LossyRead}) : "GW_B" \in DOMAIN s }

RunThresholds ==
    { EmptyMap,
      "GW_A" :> [k \in {"latencyhigh", "losshigh"} |->
                    IF k = "latencyhigh" THEN 10 ELSE 5] }

\* The facts of a run: lines 259-272.
RunFacts ==
    { [ thresholds |-> t,
        gateway_statuses |-> PfSensePlatform_get_gateway_statuses(t, s),
        gateway_to_if_map |-> topo.gateway_to_if_map,
        phys_to_pf_if_map |-> topo.phys_to_pf_if_map,
        ip_to_phys_if_map |-> topo.ip_to_phys_if_map,
        dyndns_id_map |-> topo.dyndns_id_map,
        all_ipv4 |-> l4,
        all_ipv6 |-> l6 ] :
      topo \in Topologies, t \in RunThresholds, s \in RunSockets,
      l4 \in ListsOver(V4, MaxAddrs), l6 \in ListsOver(V6, 1) }

Init == GwIdle /\ EngineInit /\ WatchIdle /\ other_run = NoOtherRun /\ failed_publish = << >>

RunStart ==
    /\ pc = "idle"
    /\ \E a \in ArgSets, facts \in RunFacts : RunClassify(a, facts)
    /\ gather_failed' = "none"
    /\ UNCHANGED otherVars

UpdateDns ==
    /\ \E ok \in BOOLEAN : Publish(ok)
    /\ UNCHANGED failed_publish

Persist == \E timestamp \in 1..MaxTime : SaveState(timestamp)

Next ==
    \/ RunStart
    \/ ApplyFilters
    \/ Decide
    \/ UpdateDns
    \/ Persist
    \/ UpdateCacheFiles
    \/ Notify
    \/ RunExit

Spec == Init /\ [][Next]_vars

(***************************************************************************)
(* Classification over every topology                                      *)
(***************************************************************************)

TopoInit == GwIdle /\ EngineInit /\ WatchIdle /\ other_run = NoOtherRun /\ failed_publish = << >>

TopoClassify ==
    /\ pc = "idle"
    /\ \E facts \in TopoFacts : RunClassify(NoArgs, facts)
    /\ gather_failed' = "none"
    /\ UNCHANGED otherVars

\* The run is dropped after classification.
TopoAbandon ==
    /\ pc = "classified"
    /\ pc' = "idle"
    /\ ClearRunLocals
    /\ UNCHANGED <<otherVars, exit_status, state_file, dns>>

TopoNext == TopoClassify \/ TopoAbandon

SpecTopo == TopoInit /\ [][TopoNext]_vars

(***************************************************************************)
(* The watch loop: gateway_watcher.py                                      *)
(***************************************************************************)

\* "-v6" in service_type, for the service types of the model.
TypeNamesV6(service_type) == service_type \in {"cloudflare-v6", "custom-v6"}

\* is_ipv6_configured: True when config.xml cannot be parsed, otherwise
\* whether an enabled entry has a "-v6" type.
is_ipv6_configured(config) ==
    IF ~config.readable THEN TRUE
    ELSE \E i \in DOMAIN config.dyndnses :
            config.dyndnses[i].enable /\ TypeNamesV6(config.dyndnses[i].type)

\* The flags of the command of run_updater, lines 109-119.
UpdaterCommand(config) ==
    [force_update |-> TRUE,
     ipv4only |-> ~is_ipv6_configured(config),
     ipv6only |-> FALSE,
     dry_run |-> FALSE]

\* Line 142: if current_statuses and current_statuses != previous_statuses
ShouldTriggerMutant(current, previous) == current /= previous
ShouldTrigger(current, previous) == current /= EmptyMap /\ current /= previous

\* "gw 600000 7 0"
SlowRead ==
    [timeout |-> FALSE,
     parts |-> <<NameToken, <<"6", "0", "0", "0", "0", "0">>, StddevToken, <<"0">> >>]

\* What a poll can find at the sockets.
WatchSockets == PartialMaps(Gateways, {GoodRead, SlowRead})

\* The <dyndnses> section as the watcher can find it.
DynDnsConfigs ==
    { [readable |-> FALSE, dyndnses |-> << >>],
      [readable |-> TRUE, dyndnses |-> << >>],
      [readable |-> TRUE, dyndnses |-> << [enable |-> TRUE, type |-> "custom"] >>],
      [readable |-> TRUE,
       dyndnses |-> << [enable |-> TRUE, type |-> "custom"],
                       [enable |-> TRUE, type |-> "cloudflare-v6"] >>],
      [readable |-> TRUE,
       dyndnses |-> << [enable |-> FALSE, type |-> "cloudflare-v6"] >>] }

\* What the engine finds when the watcher starts it: the two uplinks with
\* their addresses, the gateways as the engine itself reads them.
WatchRunFacts ==
    { [ thresholds |-> t,
        gateway_statuses |-> PfSensePlatform_get_gateway_statuses(t, s),
        gateway_to_if_map |-> DualWan.gateway_to_if_map,
        phys_to_pf_if_map |-> DualWan.phys_to_pf_if_map,
        ip_to_phys_if_map |-> DualWan.ip_to_phys_if_map,
        dyndns_id_map |-> DualWan.dyndns_id_map,
        all_ipv4 |-> <<"203.0.113.5", "203.0.113.9">>,
        all_ipv6 |-> <<"2001:db8::1">> ] :
      t \in {EmptyMap}, s \in [Gateways -> {GoodRead, LossyRead}] }

\* Lines 130-134: the first reading becomes the remembered mapping.
WatchStartWith(sockets) ==
    /\ w_pc = "start"
    /\ \E t \in RunThresholds, s \in sockets :
          previous_statuses' = watcher_get_gateway_statuses(t, s)
    /\ w_pc' = "sleeping"
    /\ UNCHANGED <<current_statuses, w_command, w_last, gwVars, engineVars, other_run, failed_publish>>

WatchStart == WatchStartWith(WatchSockets)

\* Lines 137-146 up to the subprocess: sleep, read, compare, and on a
\* change build the command.
PollWith(sockets, configs) ==
    /\ w_pc = "sleeping"
    /\ \E t \in RunThresholds, s \in sockets, config \in configs :
          LET current == watcher_get_gateway_statuses(t, s) IN
          /\ current_statuses' = current
          /\ IF ShouldTrigger(current, previous_statuses)
             THEN w_pc' = "spawning" /\ w_command' = UpdaterCommand(config)
             ELSE w_pc' = "sleeping" /\ w_command' = w_command
    /\ UNCHANGED <<previous_statuses, w_last, gwVars, engineVars, other_run, failed_publish>>

Poll == PollWith(WatchSockets, DynDnsConfigs)

\* subprocess.run starts the engine with the command's flags.
WatchSpawnWith(run_facts) ==
    /\ w_pc = "spawning"
    /\ pc = "idle"
    /\ \E facts \in run_facts : RunClassify(w_command, facts)
    /\ gather_failed' = "none"
    /\ w_pc' = "waiting"
    /\ UNCHANGED <<previous_statuses, current_statuses, w_command, w_last, gwVars, other_run, failed_publish>>

WatchSpawn == WatchSpawnWith(WatchRunFacts)

\* Lines 123-124: run_updater catches what subprocess.run raises, prints
\* and returns, and the loop goes on to line 147 and the next sleep.  An
\* exception that left watch_for_changes would end the process ("dead").
AfterUpdaterErrorMutant == "dead"
AfterUpdaterError == "sleeping"

\* subprocess.run raises before the engine runs; line 123 catches it and
\* line 147 follows.
WatchSpawnFails ==
    /\ w_pc = "spawning"
    /\ w_pc' = AfterUpdaterError
    /\ previous_statuses' = current_statuses
    /\ w_last' = "error"
    /\ UNCHANGED <<current_statuses, w_command, gwVars, engineVars, other_run, failed_publish>>

\* The engine exits within the 60 seconds (whatever its exit status);
\* line 147.
WatchUpdaterReturns ==
    /\ w_pc = "waiting"
    /\ pc \in {"finished", "aborted"}
    /\ pc' = "idle"
    /\ exit_status' = <<ExitStatus(outcome)>>
    /\ ClearRunLocals
    /\ w_pc' = "sleeping"
    /\ previous_statuses' = current_statuses
    /\ w_last' = "returned"
    /\ UNCHANGED <<current_statuses, w_command, gwVars, other_run, failed_publish, state_file, dns>>

\* The returncode of a child killed by SIGKILL.
KilledStatus == 0 - 9

\* timeout=60 expires: subprocess.run kills the engine wherever it is and
\* raises TimeoutExpired; line 123 catches it and line 147 follows.
WatchUpdaterTimeout ==
    /\ w_pc = "waiting"
    /\ pc' = "idle"
    /\ exit_status' = <<KilledStatus>>
    /\ ClearRunLocals
    /\ w_pc' = AfterUpdaterError
    /\ previous_statuses' = current_statuses
    /\ w_last' = "error"
    /\ UNCHANGED <<current_statuses, w_command, gwVars, other_run, failed_publish, state_file, dns>>

WatchInit == GwIdle /\ EngineInit /\ WatchIdle /\ other_run = NoOtherRun /\ failed_publish = << >>

WatchNext ==
    \/ WatchStart
    \/ Poll
    \/ WatchSpawn
    \/ WatchSpawnFails
    \/ WatchUpdaterReturns
    \/ WatchUpdaterTimeout
    \/ ApplyFilters
    \/ Decide
    \/ UpdateDns
    \/ Persist
    \/ UpdateCacheFiles
    \/ Notify

SpecWatch == WatchInit /\ [][WatchNext]_vars

(***************************************************************************)
(* Runs from the command line: every flag, adapter calls that fail, a      *)
(* state file that cannot be read                                          *)
(***************************************************************************)

\* The platform-adapter calls of lines 259-272, in the order run makes them.
AdapterCalls ==
    {"thresholds", "statuses", "gateway_interface_map", "physical_to_logical",
     "ip_to_physical", "dyndns_ids", "ipv4", "ipv6"}

\* The adapters whose body is inside try/except and which return what they
\* had collected (nothing, when the source itself could not be read).
GuardedCalls ==
    {"thresholds", "statuses", "gateway_interface_map", "physical_to_logical",
     "dyndns_ids"}

\* get_ip_to_physical_interface_map, get_public_ipv4_addresses and
\* get_public_ipv6_addresses call subprocess.run outside any try: what it
\* raises leaves the adapter and, run having no try either, leaves run.
GatherRaises(fail) == fail \in AdapterCalls \ GuardedCalls

\* What lines 259-272 assign when the call `fail` fails ("none": no call
\* fails) and no exception leaves run.
Gather(t, s, topo, l4, l6, fail) ==
    LET th == IF fail = "thresholds" THEN EmptyMap ELSE t IN
    [ thresholds |-> th,
      gateway_statuses |->
          IF fail = "statuses" THEN EmptyMap
          ELSE PfSensePlatform_get_gateway_statuses(th, s),
      gateway_to_if_map |->
          IF fail = "gateway_interface_map" THEN << >> ELSE topo.gateway_to_if_map,
      phys_to_pf_if_map |->
          IF fail = "physical_to_logical" THEN EmptyMap ELSE topo.phys_to_pf_if_map,
      ip_to_phys_if_map |-> topo.ip_to_phys_if_map,
      dyndns_id_map |->
          IF fail = "dyndns_ids" THEN EmptyMap ELSE topo.dyndns_id_map,
      all_ipv4 |-> l4,
      all_ipv6 |-> l6 ]

\* argparse, lines 335-342: the flags of the command line.
CliArgSets ==
    [force_update : BOOLEAN, ipv4only : BOOLEAN, ipv6only : BOOLEAN,
     dry_run : BOOLEAN]

\* GW_A is held to 10 ms / 5 %, GW_B to the defaults.
StrictThresholds ==
    "GW_A" :> [k \in {"latencyhigh", "losshigh"} |->
                  IF k = "latencyhigh" THEN 10 ELSE 5]

\* The state file and the record as a run can find them: nothing yet, a
\* file that cannot be read or parsed, the state of an earlier publish.
CliStores ==
    { [file |-> [exists |-> FALSE, readable |-> FALSE, content |-> EmptyMap],
       A |-> {}],
      [file |-> [exists |-> TRUE, readable |-> FALSE, content |-> EmptyMap],
       A |-> {"203.0.113.5"}],
      [file |-> [exists |-> TRUE, readable |-> TRUE,
                 content |-> SavedState(EmptyMap, <<"203.0.113.5">>, << >>, 1)],
       A |-> {"203.0.113.5"}] }

CliInit ==
    /\ GwIdle
    /\ WatchIdle
    /\ other_run = NoOtherRun /\ failed_publish = << >>
    /\ pc = "idle"
    /\ RunLocalsCleared
    /\ exit_status = << >>
    /\ \E store \in CliStores :
          /\ state_file = store.file
          /\ dns = [A |-> store.A, AAAA |-> {}]

\* A run on the two uplinks in which at most one adapter call fails.
CliStart ==
    /\ pc = "idle"
    /\ \E a \in CliArgSets, s \in RunSockets, fail \in AdapterCalls \cup {"none"} :
          /\ gather_failed' = fail
          /\ IF GatherRaises(fail)
             THEN /\ pc' = "aborted"
                  /\ outcome' = "gather_raised"
                  /\ args' = a
                  /\ exit_status' = << >>
                  /\ UNCHANGED <<thresholds, gateway_statuses, gateway_to_if_map,
                                 phys_to_pf_if_map, ip_to_phys_if_map, dyndns_id_map,
                                 all_ipv4, all_ipv6, partitionVars, decisionVars,
                                 state_file, dns, effectVars>>
             ELSE RunClassify(a, Gather(StrictThresholds, s, DualWan,
                                        <<"203.0.113.5", "203.0.113.9">>,
                                        <<"2001:db8::1">>, fail))
    /\ UNCHANGED otherVars

CliNext ==
    \/ CliStart
    \/ ApplyFilters
    \/ Decide
    \/ UpdateDns
    \/ Persist
    \/ UpdateCacheFiles
    \/ Notify
    \/ RunExit

SpecCli == CliInit /\ [][CliNext]_vars

(***************************************************************************)
(* Two engine processes at once: the one the watch loop started and one    *)
(* started by cron or by hand.  Neither script takes a lock.               *)
(***************************************************************************)

\* Lines 256-304 of the second process in one step: it gathers, classifies
\* and filters on its own locals, reads the state file once (line 298) and
\* decides.  What it keeps are its healthy lists and unhealthy sets.
OtherRunDecides(a, facts) ==
    LET if_to_gateway_map == InvertDict(facts.gateway_to_if_map)
        h4 == HealthyList(facts.all_ipv4, facts.ip_to_phys_if_map,
                          facts.phys_to_pf_if_map, if_to_gateway_map,
                          facts.gateway_statuses)
        h6 == HealthyList(facts.all_ipv6, facts.ip_to_phys_if_map,
                          facts.phys_to_pf_if_map, if_to_gateway_map,
                          facts.gateway_statuses)
        f4 == FilterHealthy(a.ipv6only, h4)
        f6 == FilterHealthy(a.ipv4only, h6)
        previous == load_previous_state(state_file)
    IN  [pc |-> IF UpdateNeeded(a.force_update,
                                FamilyChanged(previous, "ipv4", f4),
                                FamilyChanged(previous, "ipv6", f6))
                THEN "publishing" ELSE "idle",
         healthy_ipv4 |-> f4,
         healthy_ipv6 |-> f6,
         unhealthy_ipv4 |-> FilterUnhealthy(a.ipv6only, UnhealthySet(facts.all_ipv4, h4)),
         unhealthy_ipv6 |-> FilterUnhealthy(a.ipv4only, UnhealthySet(facts.all_ipv6, h6))]

\* The command lines of cron ("Scheduled") and of a forced run by hand.
OtherArgSets ==
    { [NoArgs EXCEPT !.force_update = f] : f \in BOOLEAN }

\* The second process starts while the state file can be read; a run that
\* finds nothing to do is over at once.
OtherStart ==
    /\ other_run.pc = "idle"
    /\ ~load_previous_state_raises(state_file)
    /\ \E a \in OtherArgSets, facts \in WatchRunFacts :
          LET run == OtherRunDecides(a, facts) IN
          other_run' = IF run.pc = "idle" THEN NoOtherRun ELSE run
    /\ UNCHANGED <<gwVars, watchVars, failed_publish, engineVars>>

\* Line 306 of the second process.
OtherPublish ==
    /\ other_run.pc = "publishing"
    /\ \E ok \in BOOLEAN :
          IF ok
          THEN /\ dns' = ReplaceRRsets(dns, other_run.healthy_ipv4,
                                        other_run.healthy_ipv6)
               /\ other_run' = [other_run EXCEPT !.pc = AfterPublish(ok)]
          ELSE /\ dns' = dns
               /\ other_run' = NoOtherRun
    /\ UNCHANGED <<gwVars, watchVars, failed_publish, pc, args, factVars, partitionVars,
                   decisionVars, outcome, exit_status, state_file, effectVars>>

\* Line 307 of the second process.
OtherSave ==
    /\ other_run.pc = "persisting"
    /\ \E timestamp \in 1..MaxTime :
          state_file' = [exists |-> TRUE, readable |-> TRUE,
                         content |-> SavedState(EmptyMap, other_run.healthy_ipv4,
                                                other_run.healthy_ipv6, timestamp)]
    /\ other_run' = [other_run EXCEPT !.pc = "cachewriting"]
    /\ UNCHANGED <<gwVars, watchVars, failed_publish, pc, args, factVars, partitionVars,
                   decisionVars, outcome, exit_status, dns, effectVars>>

\* Lines 308-318 of the second process: cache files, notice and exit.  The
\* logs cache_writes and notifications are those of the first process; the
\* second one's writes to the cache files are not recorded.
OtherFinish ==
    /\ other_run.pc = "cachewriting"
    /\ other_run' = NoOtherRun
    /\ UNCHANGED <<gwVars, watchVars, failed_publish, engineVars>>

\* The first process, as the watch loop or cron starts it.
RaceStart ==
    /\ pc = "idle"
    /\ \E a \in OtherArgSets, facts \in WatchRunFacts : RunClassify(a, facts)
    /\ gather_failed' = "none"
    /\ UNCHANGED otherVars

RaceInit == GwIdle /\ EngineInit /\ WatchIdle /\ other_run = NoOtherRun /\ failed_publish = << >>

RaceNext ==
    \/ RaceStart
    \/ ApplyFilters
    \/ Decide
    \/ UpdateDns
    \/ Persist
    \/ UpdateCacheFiles
    \/ Notify
    \/ RunExit
    \/ OtherStart
    \/ OtherPublish
    \/ OtherSave
    \/ OtherFinish

SpecRace == RaceInit /\ [][RaceNext]_vars

(***************************************************************************)
(* Runs repeated after a failed publish                                    *)
(***************************************************************************)

\* update_dns with a record of the failure: a failed publish of a change
\* is remembered until a publish succeeds.
RetryPublish(ok) ==
    /\ Publish(ok)
    /\ failed_publish' =
          IF ok THEN << >>
          ELSE IF ipv4_changed \/ ipv6_changed
               THEN << [ipv4 |-> Range(healthy_ipv4), ipv6 |-> Range(healthy_ipv6)] >>
               ELSE failed_publish

\* The PATCH is refused or raises.
RetryPublishFails == RetryPublish(FALSE)

\* The PATCH is answered with 204.
RetryPublishSucceeds == RetryPublish(TRUE)

\* A run by cron or by hand on the two uplinks.
RetryStart ==
    /\ pc = "idle"
    /\ \E a \in OtherArgSets, facts \in WatchRunFacts : RunClassify(a, facts)
    /\ gather_failed' = "none"
    /\ UNCHANGED otherVars

RetryInit == GwIdle /\ EngineInit /\ WatchIdle /\ other_run = NoOtherRun /\ failed_publish = << >>

RetryNext ==
    \/ RetryStart
    \/ ApplyFilters
    \/ Decide
    \/ RetryPublishFails
    \/ RetryPublishSucceeds
    \/ Persist
    \/ UpdateCacheFiles
    \/ Notify
    \/ RunExit

\* Runs are started again and again (cron), a started run takes its steps,
\* and a publish that is attempted again and again succeeds at some time.
RetryFairness ==
    /\ WF_vars(RetryStart)
    /\ WF_vars(ApplyFilters)
    /\ WF_vars(Decide)
    /\ SF_vars(RetryPublishSucceeds)
    /\ WF_vars(Persist)
    /\ WF_vars(UpdateCacheFiles)
    /\ WF_vars(Notify)
    /\ WF_vars(RunExit)

SpecRetry == RetryInit /\ [][RetryNext]_vars /\ RetryFairness

(***************************************************************************)
(* The watch loop with an engine that can raise, fail or hang              *)
(***************************************************************************)

\* The engine the watcher started raises while gathering (ifconfig cannot
\* be run): the child ends with a traceback.
WatchEngineRaises ==
    /\ w_pc = "spawning"
    /\ pc = "idle"
    /\ pc' = "aborted"
    /\ outcome' = "gather_raised"
    /\ args' = w_command
    /\ exit_status' = << >>
    /\ \E fail \in AdapterCalls : GatherRaises(fail) /\ gather_failed' = fail
    /\ w_pc' = "waiting"
    /\ UNCHANGED <<thresholds, gateway_statuses, gateway_to_if_map,
                   phys_to_pf_if_map, ip_to_phys_if_map, dyndns_id_map,
                   all_ipv4, all_ipv6, partitionVars, decisionVars,
                   state_file, dns, effectVars>>
    /\ UNCHANGED <<previous_statuses, current_statuses, w_command, w_last,
                   gwVars, other_run, failed_publish>>

LoopInit == GwIdle /\ EngineInit /\ WatchIdle /\ other_run = NoOtherRun /\ failed_publish = << >>

\* What the loop's polls find: no readable socket at all, every gateway
\* good, and GW_A slow.
LoopSockets ==
    { EmptyMap,
      [g \in Gateways |-> GoodRead],
      [g \in Gateways |-> IF g = "GW_A" THEN SlowRead ELSE GoodRead] }

LoopConfigs ==
    { [readable |-> FALSE, dyndnses |-> << >>],
      [readable |-> TRUE, dyndnses |-> << [enable |-> TRUE, type |-> "custom"] >>] }

LoopRunFacts ==
    { f \in WatchRunFacts : f.gateway_statuses["GW_B"] = f.gateway_statuses["GW_A"] }

LoopStart == WatchStartWith(LoopSockets)
LoopPoll == PollWith(LoopSockets, LoopConfigs)
LoopSpawn == WatchSpawnWith(LoopRunFacts)

LoopNext ==
    \/ LoopStart
    \/ LoopPoll
    \/ LoopSpawn
    \/ WatchSpawnFails
    \/ WatchEngineRaises
    \/ WatchUpdaterReturns
    \/ WatchUpdaterTimeout
    \/ ApplyFilters
    \/ Decide
    \/ UpdateDns
    \/ Persist
    \/ UpdateCacheFiles
    \/ Notify

\* subprocess.run either starts the child or raises, and it returns or
\* raises TimeoutExpired within 60 seconds whatever the child does; nothing
\* is assumed of the engine's own steps.
LoopFairness ==
    /\ WF_vars(LoopStart)
    /\ WF_vars(LoopSpawn \/ WatchSpawnFails \/ WatchEngineRaises)
    /\ WF_vars(WatchUpdaterReturns \/ WatchUpdaterTimeout)

SpecLoop == LoopInit /\ [][LoopNext]_vars /\ LoopFairness

(***************************************************************************)
(* Runs whose cache writes and notification can fail                       *)
(***************************************************************************)

\* Three addresses on the uplinks of three topologies, every gateway with a
\* good or a lossy sample.
FaultFacts ==
    { [ thresholds |-> EmptyMap,
        gateway_statuses |-> PfSensePlatform_get_gateway_statuses(EmptyMap, s),
        gateway_to_if_map |-> topo.gateway_to_if_map,
        phys_to_pf_if_map |-> topo.phys_to_pf_if_map,
        ip_to_phys_if_map |-> topo.ip_to_phys_if_map,
        dyndns_id_map |-> topo.dyndns_id_map,
        all_ipv4 |-> <<"203.0.113.5", "203.0.113.9">>,
        all_ipv6 |-> <<"2001:db8::1">> ] :
      topo \in {DualWan, SharedWan, PartialConfig},
      s \in [Gateways -> {GoodRead, LossyRead}] }

\* The positions of the writes of one run: at most one per address.
WriteFaults == SUBSET (1..(MaxAddrs + 1))

FaultStart ==
    /\ pc = "idle"
    /\ \E a \in ArgSets, facts \in FaultFacts : RunClassify(a, facts)
    /\ gather_failed' = "none"
    /\ UNCHANGED otherVars

FaultCacheFiles == UpdateCacheFilesWith(WriteFaults)

FaultNotify == \E sent \in BOOLEAN : NotifyWith(sent)

FaultInit == GwIdle /\ EngineInit /\ WatchIdle /\ other_run = NoOtherRun /\ failed_publish = << >>

FaultNext ==
    \/ FaultStart
    \/ ApplyFilters
    \/ Decide
    \/ UpdateDns
    \/ Persist
    \/ FaultCacheFiles
    \/ FaultNotify
    \/ RunExit

SpecFault == FaultInit /\ [][FaultNext]_vars

(***************************************************************************)
(* Properties                                                              *)
(***************************************************************************)

\* The thresholds that apply to gateway g: its configured ones, or the
\* defaults 500 ms / 20 %.
C1_LatencyHighMs(g) ==
    IF g \in DOMAIN c_thresholds THEN c_thresholds[g]["latencyhigh"] ELSE 500
C1_LossHighPct(g) ==
    IF g \in DOMAIN c_thresholds THEN c_thresholds[g]["losshigh"] ELSE 20

\* A sample that is there, has at least 4 fields and whose latency and
\* loss fields are integers.
C1_SampleUsable(read) ==
    /\ ~read.timeout
    /\ Len(read.parts) >= 4
    /\ IsIntToken(read.parts[2])
    /\ IsIntToken(read.parts[4])

C1_WithinThresholds(g) ==
    /\ C1_SampleUsable(c_sockets[g])
    /\ IntOf(c_sockets[g].parts[2]) < 1000 * C1_LatencyHighMs(g)
    /\ IntOf(c_sockets[g].parts[4]) < C1_LossHighPct(g)

\* C1: the engine's classifier gives a sampled gateway 'online' if and only
\* if latencyUs/1000 < latencyHighMs and lossPct < lossHighPct (configured
\* thresholds, or 500 ms / 20 %), and 'down' for a value equal to a
\* threshold and for a missing, short or non-integer sample.
C1_OnlineIffWithinThresholds ==
    c_pc = "classified" =>
        \A g \in DOMAIN c_sockets :
            /\ g \in DOMAIN c_statuses
            /\ c_statuses[g] \in {"online", "down"}
            /\ c_statuses[g] = "online" <=> C1_WithinThresholds(g)

\* The gateway the chain address -> physical interface -> logical
\* interface -> gateway ends at is online.  Of several gateways on the
\* logical interface the chain ends at the last one listed.
C2_ChainOnline(ip) ==
    \E phys \in PhysIfs, pf \in PfIfs, i \in DOMAIN gateway_to_if_map :
        /\ ip \in DOMAIN ip_to_phys_if_map
        /\ ip_to_phys_if_map[ip] = phys
        /\ phys \in DOMAIN phys_to_pf_if_map
        /\ phys_to_pf_if_map[phys] = pf
        /\ gateway_to_if_map[i][2] = pf
        /\ \A j \in DOMAIN gateway_to_if_map : j > i => gateway_to_if_map[j][2] /= pf
        /\ gateway_to_if_map[i][1] \in DOMAIN gateway_statuses
        /\ gateway_statuses[gateway_to_if_map[i][1]] = "online"

\* The chain of ip ends at a gateway that the status map does not hold.
C2_GatewayWithoutStatus(ip) ==
    \E i \in DOMAIN gateway_to_if_map :
        /\ ip \in DOMAIN ip_to_phys_if_map
        /\ ip_to_phys_if_map[ip] \in DOMAIN phys_to_pf_if_map
        /\ gateway_to_if_map[i][2] = phys_to_pf_if_map[ip_to_phys_if_map[ip]]
        /\ \A j \in DOMAIN gateway_to_if_map :
              j > i => gateway_to_if_map[j][2] /= gateway_to_if_map[i][2]
        /\ gateway_to_if_map[i][1] \notin DOMAIN gateway_statuses

\* C2: a discovered address of either family is classified healthy if and
\* only if its chain ends at a gateway whose status is 'online'; with a
\* link missing, or the gateway absent from the status map, it is classified
\* unhealthy (and classification completes).
C2_HealthyIffChainOnline ==
    pc = "classified" =>
        /\ \A ip \in Range(all_ipv4) :
              /\ ip \in Range(healthy_ipv4) <=> C2_ChainOnline(ip)
              /\ ip \in unhealthy_ipv4 <=> ~C2_ChainOnline(ip)
        /\ \A ip \in Range(all_ipv6) :
              /\ ip \in Range(healthy_ipv6) <=> C2_ChainOnline(ip)
              /\ ip \in unhealthy_ipv6 <=> ~C2_ChainOnline(ip)

\* A healthy IPv4 address, an IPv6 address on no known interface and an
\* IPv4 address whose gateway has no status, in one run.
C2_Witness ==
    /\ pc = "classified"
    /\ healthy_ipv4 /= << >>
    /\ \E ip \in unhealthy_ipv4 : C2_GatewayWithoutStatus(ip)
    /\ \E ip \in unhealthy_ipv6 : ip \notin DOMAIN ip_to_phys_if_map

\* C3: the healthy and unhealthy sets that classification produces are
\* disjoint and together are exactly the discovered set, for each family;
\* they are still disjoint after the --ipv4only / --ipv6only filters.
C3_Partition ==
    /\ pc = "classified" =>
          /\ Range(healthy_ipv4) \cap unhealthy_ipv4 = {}
          /\ Range(healthy_ipv4) \cup unhealthy_ipv4 = Range(all_ipv4)
          /\ Range(healthy_ipv6) \cap unhealthy_ipv6 = {}
          /\ Range(healthy_ipv6) \cup unhealthy_ipv6 = Range(all_ipv6)
    /\ pc \notin {"idle", "classified"} =>
          /\ Range(healthy_ipv4) \cap unhealthy_ipv4 = {}
          /\ Range(healthy_ipv6) \cap unhealthy_ipv6 = {}

\* A filtered run in which IPv4 has a healthy and an unhealthy address.
C3_Witness ==
    /\ pc = "filtered"
    /\ args.ipv4only
    /\ all_ipv6 /= << >>
    /\ healthy_ipv4 /= << >>
    /\ unhealthy_ipv4 /= {}

\* The run has taken its decision.
PostDecide == pc \in {"publishing", "persisting", "cachewriting", "notifying", "finished"}

\* The address keys the state holds for a family; none when the state
\* has no such family.
PersistedKeys(state, family) ==
    IF family \in DOMAIN state THEN DOMAIN state[family] ELSE {}

\* What is in the state file, as a run reads it.
FileState == IF state_file.exists THEN state_file.content ELSE EmptyMap

\* C4: a run without --force-update whose healthy IPv4 and IPv6 sets equal
\* the key sets of the persisted state ends with no publish call, no write
\* of the state file, no cache write and no notification.
C4_NoChangeNoEffects ==
    /\ (PostDecide /\ state_writes = 0) => previous_state = FileState
    /\ ( /\ PostDecide
         /\ ~args.force_update
         /\ Range(healthy_ipv4) = PersistedKeys(previous_state, "ipv4")
         /\ Range(healthy_ipv6) = PersistedKeys(previous_state, "ipv6") )
       => /\ pc = "finished"
          /\ outcome = "nochange"
          /\ publish_calls = << >>
          /\ state_writes = 0
          /\ cache_writes = << >>
          /\ notifications = 0

\* The scenario of the spec: the one healthy address is the persisted one.
C4_Witness ==
    /\ pc = "finished"
    /\ ~args.force_update
    /\ healthy_ipv4 = <<"203.0.113.5">>
    /\ PersistedKeys(previous_state, "ipv4") = {"203.0.113.5"}
    /\ Range(healthy_ipv6) = PersistedKeys(previous_state, "ipv6")

\* C5: the change decision is false if and only if the persisted ipv4 keys
\* are the set of healthy IPv4 addresses and the persisted ipv6 keys the
\* set of healthy IPv6 addresses, whatever the timestamps, the order and
\* the repeats; a state without a family counts as empty for it.
C5_ChangeDecision ==
    PostDecide =>
        ( (~ipv4_changed /\ ~ipv6_changed)
          <=> ( /\ PersistedKeys(previous_state, "ipv4") = Range(healthy_ipv4)
                /\ PersistedKeys(previous_state, "ipv6") = Range(healthy_ipv6) ) )

\* No change found although the healthy list repeats its address and the
\* persisted timestamp is the later one.
C5_Witness ==
    /\ PostDecide
    /\ ~ipv4_changed
    /\ ~ipv6_changed
    /\ Len(healthy_ipv4) = 2
    /\ \E ip \in PersistedKeys(previous_state, "ipv4") : previous_state["ipv4"][ip] = 2

\* C6: when the publish call does not report success, the run leaves the
\* state file as it was, writes no cache file and sends no notification.
C6_FailedPublishNoEffects ==
    (publish_calls /= << >> /\ ~publish_calls[Len(publish_calls)].ok)
    => /\ pc = "finished"
       /\ outcome = "failed"
       /\ Len(publish_calls) = 1
       /\ state_writes = 0
       /\ cache_writes = << >>
       /\ notifications = 0
       /\ FileState = previous_state

\* A failed publish of a changed IPv4 set over an existing state file.
C6_Witness ==
    /\ pc = "finished"
    /\ outcome = "failed"
    /\ state_file.exists
    /\ ipv4_changed
    /\ healthy_ipv4 /= << >>

CacheDone == pc = "notifying" \/ (pc = "finished" /\ outcome = "updated")

\* The cache file of an address: its logical interface and that
\* interface's DynDNS entry id.
C8_HasId(ip) ==
    /\ ip \in DOMAIN ip_to_phys_if_map
    /\ ip_to_phys_if_map[ip] \in DOMAIN phys_to_pf_if_map
    /\ phys_to_pf_if_map[ip_to_phys_if_map[ip]] \in DOMAIN dyndns_id_map
C8_Path(ip) ==
    << phys_to_pf_if_map[ip_to_phys_if_map[ip]],
       dyndns_id_map[phys_to_pf_if_map[ip_to_phys_if_map[ip]]] >>

C8_Written(ip, content) ==
    \E i \in DOMAIN cache_writes :
        cache_writes[i].path = C8_Path(ip) /\ cache_writes[i].content = content

\* The chain of ip reaches no gateway at all.
C8_NoGateway(ip) ==
    ~ \E i \in DOMAIN gateway_to_if_map :
        /\ ip \in DOMAIN ip_to_phys_if_map
        /\ ip_to_phys_if_map[ip] \in DOMAIN phys_to_pf_if_map
        /\ gateway_to_if_map[i][2] = phys_to_pf_if_map[ip_to_phys_if_map[ip]]

C9_FamilyEmpty(family, healthy, unhealthy, changed, addrs) ==
    /\ healthy = << >>
    /\ unhealthy = {}
    /\ PostDecide => (changed <=> PersistedKeys(previous_state, family) /= {})
    /\ \A i \in DOMAIN publish_calls : publish_calls[i][family] = << >>
    /\ state_writes > 0 => DOMAIN state_file.content[family] = {}
    /\ \A i \in DOMAIN cache_writes : cache_writes[i].content[1] \notin addrs

\* C9: with --ipv4only the healthy and unhealthy IPv6 sets used for the
\* decision, the publish, the persisted state and the cache writes are
\* empty whatever was discovered; --ipv6only does the same to IPv4.
C9_OnlyFilters ==
    pc \notin {"idle", "classified"} =>
        /\ args.ipv4only =>
              C9_FamilyEmpty("ipv6", healthy_ipv6, unhealthy_ipv6, ipv6_changed, V6)
        /\ args.ipv6only =>
              C9_FamilyEmpty("ipv4", healthy_ipv4, unhealthy_ipv4, ipv4_changed, V4)

\* An --ipv4only run that discovered an IPv6 address on an online gateway
\* and went through publish, save and cache writing.
C9_Witness ==
    /\ pc = "finished"
    /\ outcome = "updated"
    /\ args.ipv4only
    /\ ~args.ipv6only
    /\ \E ip \in Range(all_ipv6) : C2_ChainOnline(ip) /\ C8_HasId(ip)
    /\ cache_writes /= << >>

\* C10: a poll invokes the engine if and only if the current mapping is
\* non-empty and differs from the remembered one; the remembered mapping
\* becomes the current one when that invocation is over, however it ended,
\* and no other step of the loop changes it.
C10_TriggerRule ==
    [][ /\ w_pc = "sleeping" =>
              /\ w_pc' = "spawning"
                   <=> ( /\ current_statuses' /= EmptyMap
                         /\ current_statuses' /= previous_statuses )
              /\ w_pc' \in {"spawning", "sleeping"}
              /\ previous_statuses' = previous_statuses
        /\ (w_pc \in {"spawning", "waiting"} /\ w_pc' = "sleeping") =>
              /\ previous_statuses' = current_statuses
              /\ current_statuses' = current_statuses
        /\ (w_pc \in {"spawning", "waiting"} /\ w_pc' /= "sleeping") =>
              /\ previous_statuses' = previous_statuses
              /\ current_statuses' = current_statuses
        /\ (pc = "idle" /\ pc' /= "idle") => w_pc = "spawning"
      ]_vars

\* After an invocation that ended in an error, a poll that finds no
\* gateway at all: nothing is invoked and the mapping is kept.
C10_Witness ==
    /\ w_pc = "sleeping"
    /\ w_last = "error"
    /\ current_statuses = EmptyMap
    /\ previous_statuses /= EmptyMap

\* The fact the adapter call `call` assigns is empty.
C11_FactEmpty(call) ==
    CASE call = "thresholds" -> thresholds = EmptyMap
      [] call = "statuses" -> gateway_statuses = EmptyMap
      [] call = "gateway_interface_map" -> gateway_to_if_map = << >>
      [] call = "physical_to_logical" -> phys_to_pf_if_map = EmptyMap
      [] call = "ip_to_physical" -> ip_to_phys_if_map = EmptyMap
      [] call = "dyndns_ids" -> dyndns_id_map = EmptyMap
      [] call = "ipv4" -> all_ipv4 = << >>
      [] call = "ipv6" -> all_ipv6 = << >>

\* C11: when one adapter call fails during gathering, no exception leaves
\* the run there: the run goes on to classification and the decision with
\* that one fact empty.
C11_GatherFailsOpen ==
    (pc /= "idle" /\ gather_failed /= "none") =>
        /\ outcome /= "gather_raised"
        /\ C11_FactEmpty(gather_failed)

\* The run is past load_previous_state, or was ended by it.
C12_PastLoad ==
    PostDecide \/ (pc = "aborted" /\ outcome /= "gather_raised")

\* C12: with no state file, and with a state file that cannot be read or
\* parsed, load_previous_state returns the empty state, the run does not
\* abort, and every healthy address counts as a change.
C12_LoadFailsOpen ==
    (C12_PastLoad /\ (~state_file.exists \/ ~state_file.readable)) =>
        /\ pc /= "aborted"
        /\ outcome /= "load_raised"
        /\ previous_state = EmptyMap
        /\ ipv4_changed <=> healthy_ipv4 /= << >>
        /\ ipv6_changed <=> healthy_ipv6 /= << >>

\* C13: a run started with --dry-run issues no publish call, does not
\* write the state file, writes no cache file and sends no notification,
\* whether or not a change is detected or --force-update is given.
C13_DryRunNoEffects ==
    (pc /= "idle" /\ args.dry_run) =>
        /\ publish_calls = << >>
        /\ state_writes = 0
        /\ cache_writes = << >>
        /\ notifications = 0

\* C14: the exit status tells a failed publish from a successful one and
\* from a run with nothing to do: when the process ends, its status is a
\* failure status if and only if its publish call failed.
C14_ExitStatusTellsFailure ==
    [][ (pc = "finished" /\ pc' = "idle") =>
            /\ exit_status' /= << >>
            /\ outcome = "failed" <=> exit_status'[1] /= 0
      ]_vars

\* C15: runs are serialized: never are two runs both between their
\* publish and their state save, so that whenever no run is in progress the
\* address sets of the state file are the record sets of the last publish
\* that reached DNS.
C15_RunsSerialized ==
    /\ ~(pc = "persisting" /\ other_run.pc = "persisting")
    /\ (pc = "idle" /\ other_run.pc = "idle" /\ state_file.exists) =>
          /\ PersistedKeys(state_file.content, "ipv4") = dns.A
          /\ PersistedKeys(state_file.content, "ipv6") = dns.AAAA

\* What interleaved runs leave behind: no run in progress, and the state
\* file names other addresses than the record holds.
C15_StateDiffersFromDns ==
    /\ pc = "idle"
    /\ other_run.pc = "idle"
    /\ state_file.exists
    /\ PersistedKeys(state_file.content, "ipv4") /= dns.A

\* The status a consumer that takes a missing gateway for 'down' reads
\* from mapping m for gateway g.
C16_Effective(m, g) == IF g \in DOMAIN m THEN m[g] ELSE "down"

\* Two mappings that differ at most in gateways one of them lacks and the
\* other holds as 'down'.
C16_SameEffective(m1, m2) ==
    \A g \in Gateways : C16_Effective(m1, g) = C16_Effective(m2, g)

\* The classification the engine would make with every missing gateway
\* set to 'down' in the status mapping.
C16_ClassifiedWithDown(all_ips) ==
    HealthyList(all_ips, ip_to_phys_if_map, phys_to_pf_if_map,
                InvertDict(gateway_to_if_map),
                [g \in Gateways |-> C16_Effective(gateway_statuses, g)])

\* C16: a missing gateway and a gateway held as 'down' are the same to every
\* consumer: the engine classifies the addresses alike, and a poll of the
\* watch loop triggers exactly when the current and the remembered mapping
\* differ in some gateway's status, a missing gateway counting as 'down'.
C16_MissingIsDown ==
    [][ /\ pc' = "classified" =>
              /\ healthy_ipv4' = C16_ClassifiedWithDown(all_ipv4)'
              /\ healthy_ipv6' = C16_ClassifiedWithDown(all_ipv6)'
        /\ w_pc = "sleeping" =>
              ( w_pc' = "spawning"
                <=> ~C16_SameEffective(current_statuses', previous_statuses) )
      ]_vars

\* The last publish call of the run reported success.
C17_PublishedOk ==
    publish_calls /= << >> /\ publish_calls[Len(publish_calls)].ok

\* C17: a successful publish is a full replace: whatever the record held,
\* it then holds exactly the published healthy sets as A and AAAA; and a
\* successful publish of the sets the record already holds leaves the
\* record as it was.
C17_FullReplace ==
    [][ (Len(publish_calls') = Len(publish_calls) + 1
         /\ publish_calls'[Len(publish_calls')].ok) =>
            LET call == publish_calls'[Len(publish_calls')] IN
            /\ dns'.A = Range(call.ipv4)
            /\ dns'.AAAA = Range(call.ipv6)
            /\ (dns.A = Range(call.ipv4) /\ dns.AAAA = Range(call.ipv6))
                  => dns' = dns
      ]_vars

\* A forced publish of the sets the run before published, over a record
\* that held both families.
C17_Witness ==
    /\ C17_PublishedOk
    /\ args.force_update
    /\ ~ipv4_changed
    /\ ~ipv6_changed
    /\ healthy_ipv4 /= << >>
    /\ healthy_ipv6 /= << >>
    /\ dns.A = Range(healthy_ipv4)
    /\ dns.AAAA = Range(healthy_ipv6)

\* C18: within one run there is at most one publish call, one state save
\* and one notification; DNS changes only by the publish call, before which
\* the run has changed nothing; the state file is written only after that
\* call reported success and before any cache write; cache files are
\* written only after the save and before the notification; and the
\* notification comes last.
C18_EffectOrder ==
    [][ pc' /= "idle" =>
          /\ Len(publish_calls') <= 1
          /\ state_writes' <= 1
          /\ notifications' <= 1
          /\ publish_calls' = << >> =>
                /\ dns' = dns
                /\ state_file' = state_file
                /\ state_writes' = 0
                /\ cache_writes' = << >>
                /\ notifications' = 0
          /\ dns' /= dns => publish_calls' /= publish_calls
          /\ (state_file' /= state_file \/ state_writes' /= state_writes) =>
                /\ publish_calls /= << >>
                /\ publish_calls[1].ok
                /\ publish_calls' = publish_calls
                /\ cache_writes = << >>
                /\ notifications = 0
          /\ cache_writes' /= cache_writes =>
                /\ state_writes = 1
                /\ state_writes' = 1
                /\ state_file' = state_file
                /\ notifications' = 0
          /\ notifications' /= notifications =>
                /\ state_writes = 1
                /\ pc = "notifying"
                /\ cache_writes' = cache_writes
                /\ <<dns, state_file, publish_calls>>' = <<dns, state_file, publish_calls>>
      ]_vars

\* A run that made all four kinds of effect.
C18_Witness ==
    /\ pc = "finished"
    /\ Len(publish_calls) = 1
    /\ state_writes = 1
    /\ Len(cache_writes) >= 2
    /\ notifications = 1
    /\ ipv4_changed

\* C19: for every gateway, thresholds and probe sample the watcher's
\* get_gateway_statuses computes the status the engine's
\* PfSensePlatform.get_gateway_statuses computes.
C19_SameClassifier ==
    c_pc = "classified" =>
        /\ DOMAIN c_watcher_statuses = DOMAIN c_statuses
        /\ \A g \in DOMAIN c_statuses : c_watcher_statuses[g] = c_statuses[g]

\* The pairs of healthy sets a run can publish.
C20_PublishSets == [ipv4 : SUBSET V4, ipv6 : SUBSET V6]

\* The run computed the healthy sets S.
C20_Computes(S) ==
    Range(healthy_ipv4) = S.ipv4 /\ Range(healthy_ipv6) = S.ipv6

\* The persisted state and the DNS record both hold the sets S.
C20_Reached(S) ==
    /\ state_file.exists
    /\ PersistedKeys(state_file.content, "ipv4") = S.ipv4
    /\ PersistedKeys(state_file.content, "ipv6") = S.ipv6
    /\ dns.A = S.ipv4
    /\ dns.AAAA = S.ipv6

\* After the failed publish of a change, a later run that computes the
\* same sets goes to the publish call, forced or not; and when its publish
\* has succeeded and the state is saved, state and record hold those sets.
C20_RetriesSafely ==
    \A S \in C20_PublishSets :
        /\ (failed_publish = <<S>> /\ PostDecide /\ C20_Computes(S)) =>
              /\ outcome /= "nochange"
              /\ publish_calls /= << >> \/ pc = "publishing"
        /\ (C20_Computes(S) /\ state_writes > 0) => C20_Reached(S)

\* C20: after a publish failure in a run whose healthy sets differ from
\* the persisted state, every later run that computes the same sets
\* attempts the publish, and once it succeeds state and DNS hold those
\* sets; with runs repeated and a publish that eventually succeeds, this is
\* reached unless a later run computes other sets.
C20_RetryUntilPublished ==
    /\ []C20_RetriesSafely
    /\ \A S \in C20_PublishSets :
          (failed_publish = <<S>>)
              ~> (C20_Reached(S) \/ (PostDecide /\ ~C20_Computes(S)))

\* A run without --force-update that is at the publish call again with the
\* sets whose publish failed before.
C20_Witness ==
    /\ pc = "publishing"
    /\ ~args.force_update
    /\ publish_calls = << >>
    /\ failed_publish /= << >>
    /\ C20_Computes(failed_publish[1])
    /\ healthy_ipv4 /= << >>

\* C21: nothing the engine does ends the watch loop: an invocation that
\* cannot be started, one whose engine raises or fails, and one that is
\* killed after 60 seconds all lead back to the sleep before the next
\* poll, and a poll that reads no thresholds or no samples leaves the loop
\* running.
C21_LoopKeepsPolling ==
    /\ [](w_pc \in {"start", "sleeping", "spawning", "waiting"})
    /\ (w_pc \in {"spawning", "waiting"}) ~> (w_pc = "sleeping")

\* The loop has triggered again after an invocation that was killed at
\* the timeout.
C21_Witness ==
    /\ w_pc = "spawning"
    /\ w_last = "error"
    /\ exit_status = <<KilledStatus>>
    /\ previous_statuses /= EmptyMap

\* The write of content for the cache file of ip was attempted: it was
\* completed or it raised.
C22_Attempted(ip, content) ==
    \/ C8_Written(ip, content)
    \/ \E i \in DOMAIN cache_errors :
          cache_errors[i].path = C8_Path(ip) /\ cache_errors[i].content = content

\* Every address with an id had its write attempted in its form.
C22_AllAttempted ==
    /\ \A ip \in Range(healthy_ipv4) \cup Range(healthy_ipv6) :
          C8_HasId(ip) => C22_Attempted(ip, <<ip>>)
    /\ \A ip \in unhealthy_ipv4 \cup unhealthy_ipv6 :
          C8_HasId(ip) => C22_Attempted(ip, <<ip, "\n">>)

\* C22: after a successful publish and save, cache writing attempts the
\* file of every address with an id whichever writes raise, changes
\* neither the DNS record nor the state file, and is followed by the
\* notification; the notification, sent or not, changes none of the DNS
\* record, the state file and the cache files and ends the run as updated,
\* and such a run exits with status 0.
C22_LaterFailuresAbsorbed ==
    [][ /\ pc = "cachewriting" =>
              /\ pc' = "notifying"
              /\ C22_AllAttempted'
              /\ Len(cache_writes') + Len(cache_errors') =
                    Cardinality({ip \in Range(healthy_ipv4) \cup Range(healthy_ipv6)
                                       \cup unhealthy_ipv4 \cup unhealthy_ipv6 :
                                    C8_HasId(ip)})
              /\ <<dns, state_file, state_writes>>' = <<dns, state_file, state_writes>>
        /\ pc = "notifying" =>
              /\ pc' = "finished"
              /\ outcome' = "updated"
              /\ <<dns, state_file, cache_writes, cache_errors>>' =
                    <<dns, state_file, cache_writes, cache_errors>>
        /\ (pc = "finished" /\ outcome = "updated") =>
              exit_status' = <<0>>
      ]_vars

\* A finished run whose write for a healthy address raised, whose write
\* for an unhealthy address was completed afterwards, and whose notice
\* could not be sent; DNS and the state file hold what was published.
C22_Witness ==
    /\ pc = "finished"
    /\ outcome = "updated"
    /\ notifications = 0
    /\ \E i \in DOMAIN cache_errors : Len(cache_errors[i].content) = 1
    /\ \E i \in DOMAIN cache_writes : Len(cache_writes[i].content) = 2
    /\ dns.A = Range(healthy_ipv4)
    /\ dns.A /= {}
    /\ state_file.exists
    /\ DOMAIN state_file.content["ipv4"] = Range(healthy_ipv4)

\* The addresses the run has classified and not filtered out.
C23_Healthy == Range(healthy_ipv4) \cup Range(healthy_ipv6)
C23_Listed == C23_Healthy \cup unhealthy_ipv4 \cup unhealthy_ipv6

\* C23: within one run, two addresses whose cache file is the same
\* (same logical interface, same DynDNS id) are both healthy or both
\* unhealthy, and all writes to one cache file have the same form: all
\* without or all with the trailing newline, whatever their order.
C23_SameFileSameHealth ==
    /\ \A ip1 \in C23_Listed, ip2 \in C23_Listed :
          (C8_HasId(ip1) /\ C8_HasId(ip2) /\ C8_Path(ip1) = C8_Path(ip2))
              => (ip1 \in C23_Healthy <=> ip2 \in C23_Healthy)
    /\ \A i \in DOMAIN cache_writes, j \in DOMAIN cache_writes :
          cache_writes[i].path = cache_writes[j].path
              => Len(cache_writes[i].content) = Len(cache_writes[j].content)

\* Two different addresses of both families were written to one cache
\* file in the unhealthy form while another file got the healthy form.
C23_Witness ==
    /\ CacheDone
    /\ \E i \in DOMAIN cache_writes, j \in DOMAIN cache_writes :
          /\ cache_writes[i].path = cache_writes[j].path
          /\ cache_writes[i].content[1] \in V4
          /\ cache_writes[j].content[1] \in V6
          /\ Len(cache_writes[i].content) = 2
    /\ \E k \in DOMAIN cache_writes : Len(cache_writes[k].content) = 1

====
